---- MODULE Spec2Model ----
(***************************************************************************)
(* Model of the celery task id_generation_request_worker                   *)
(* (openg2p_sr_celery_workers/tasks/id_generation_request.py).             *)
(*                                                                         *)
(* The two tables the task touches are the shared state; every running     *)
(* invocation has its own SQLAlchemy session, i.e. its own in-memory copy  *)
(* of the rows it loaded.  One action is one store read, one store commit  *)
(* or one outbound call of the task, so that invocations running on        *)
(* different celery workers interleave between them.                       *)
(*                                                                         *)
(* Not modelled: last_attempt_datetime_request (a wall-clock stamp that no *)
(* branch of the task reads) and the log output.                           *)
(***************************************************************************)
EXTENDS Integers, FiniteSets

VARIABLES
    que_id_generation,  \* table G2PQueIDGeneration: registrant_id -> row or NoEntry
    res_partner,        \* table ResPartner: id -> unique_id of the row, NoId or NoRow
    task                \* per celery worker: the invocation it is running

vars == <<que_id_generation, res_partner, task>>

----------------------------------------------------------------------------
(* Bounds of the model *)

NumWorkers == 2        \* celery worker processes that can run the task at once
NumRegistrants == 2    \* registrant ids the trigger may deliver
NumIdentifiers == 2    \* distinct UINs the authority may hand out
NumContended == 1      \* registrant ids whose deliveries may overlap one another
AttemptBound == 3      \* invocations are started only while the counter is below this

(* _config.max_id_generation_request_attempts *)
max_id_generation_request_attempts == 2

Workers == 1..NumWorkers
Registrants == 1..NumRegistrants
Identifiers == 1..NumIdentifiers

NoId == 0       \* res_partner.unique_id IS NULL
NoRow == -1     \* no res_partner row with that id
NoEntry == [absent |-> TRUE]

RequestStatus == {"PENDING", "COMPLETED", "FAILED"}
UpdateStatus == {"NOT_APPLICABLE", "PENDING"}

(* str(e) of the exception the except branch records, by the statement    *)
(* that raised it: the token step (lines 44-48), the authority call (lines *)
(* 55-66), the res_partner lookup (lines 73-76), the uin check (83-86).    *)
NoError == "None"
ErrToken == "Failed to retrieve access token"
ErrAuthority == "MOSIP Get UIN API call failed / UIN not received from MOSIP"
ErrNoPartner == "No res_partner entry found for registrant_id"
ErrDuplicate == "MOSIP ID is already present in res_partner.unique_id"

ErrorCodes == {ErrToken, ErrAuthority, ErrNoPartner, ErrDuplicate}

(* What OAuthTokenService...get_oauth_token() can do *)
TokenResults == {"raises", "empty", "token"}

(* What httpx.get(mosip_get_uin_url) can answer short of a uin: a non-200  *)
(* status, or a 200 whose body carries no usable uin.  Otherwise it        *)
(* answers with a uin; the authority is outside the program and may hand   *)
(* out the same uin twice.                                                 *)
AuthorityFailures == {"non_200", "no_uin"}

(* A freshly enqueued G2PQueIDGeneration row *)
NewQueueEntry ==
    [ number_of_attempts_request |-> 0,
      id_generation_request_status |-> "PENDING",
      id_generation_update_status |-> "NOT_APPLICABLE",
      last_attempt_error_code_request |-> NoError ]

QueueColumns == DOMAIN NewQueueEntry

(* A worker that runs no invocation.  result tells how its last invocation *)
(* ended when that left no trace in the tables: "no_queue_entry" for the   *)
(* return of line 41, "raised" for an exception that left the task.        *)
Idle ==
    [ pc |-> "idle", registrant_id |-> 0, queue_entry |-> NoEntry,
      uin |-> NoId, partner_unique_id |-> NoId, error |-> NoError,
      authority_calls |-> 0, result |-> "none" ]

----------------------------------------------------------------------------
(* The state before any invocation.  A registrant id may or may not have a *)
(* res_partner row and a freshly enqueued queue row.  Rows that are not    *)
(* queued for an identifier may already carry one (no two the same); a     *)
(* queued registrant has none yet.                                         *)

Init ==
    /\ que_id_generation \in [Registrants -> {NoEntry, NewQueueEntry}]
    /\ res_partner \in [Registrants -> {NoRow, NoId} \cup Identifiers]
    /\ \A r \in Registrants :
           que_id_generation[r] # NoEntry => res_partner[r] \in {NoRow, NoId}
    /\ \A a, b \in Registrants :
           (a # b /\ res_partner[a] \in Identifiers) => res_partner[a] # res_partner[b]
    /\ task = [w \in Workers |-> Idle]

(* The same, with queue rows for the first NumContended registrant ids     *)
(* only: the start of the runs in which deliveries of one id overlap.      *)
InitContended ==
    /\ Init
    /\ \A r \in Registrants : r > NumContended => que_id_generation[r] = NoEntry

----------------------------------------------------------------------------
(* Helpers for one invocation *)

InFlight(w) == task[w].pc # "idle"

(* Raise without the except clause of line 105: the exception leaves the   *)
(* task.                                                                   *)
Raise_propagates(w, e) ==
    task' = [task EXCEPT ![w] = [Idle EXCEPT !.result = "raised"]]

(* An exception reaches the except branch, which reads only queue_entry and *)
(* the exception: the other locals are dead from here on.                  *)
Raise(w, e) ==
    task' = [task EXCEPT ![w] = [Idle EXCEPT !.pc = "except",
                                             !.registrant_id = task[w].registrant_id,
                                             !.queue_entry = task[w].queue_entry,
                                             !.authority_calls = task[w].authority_calls,
                                             !.error = e]]

(* session.commit() of a changed queue_entry: the unit of work writes the  *)
(* columns whose value differs from the one the session loaded, and leaves *)
(* the other columns of the row as they are in the table.                  *)
Flush(row, loaded, changed) ==
    [c \in QueueColumns |-> IF changed[c] # loaded[c] THEN changed[c] ELSE row[c]]

(* existing_partner_with_uin with the lookup left out *)
existing_partner_with_uin_unchecked(u) == FALSE

(* lines 78-83: is a res_partner row with unique_id == uin found? *)
existing_partner_with_uin(u) ==
    \E p \in Registrants : res_partner[p] = u

(* AttemptsExhausted with > for >= *)
AttemptsExhausted_strict(n) == n > max_id_generation_request_attempts

(* lines 113-116: the attempt threshold *)
AttemptsExhausted(n) == n >= max_id_generation_request_attempts

(* SuccessUpdate without line 96: the update stage is not handed the entry *)
SuccessUpdate_no_handoff(qe) ==
    [qe EXCEPT !.number_of_attempts_request = @ + 1,
               !.id_generation_request_status = "COMPLETED",
               !.last_attempt_error_code_request = NoError]

(* lines 92-98: the queue entry as the success path leaves it *)
SuccessUpdate(qe) ==
    [qe EXCEPT !.number_of_attempts_request = @ + 1,
               !.id_generation_request_status = "COMPLETED",
               !.id_generation_update_status = "PENDING",
               !.last_attempt_error_code_request = NoError]

(* FailureUpdate without the increment of line 110 *)
FailureUpdate_uncounted(qe, e) ==
    [qe EXCEPT !.last_attempt_error_code_request = e,
               !.id_generation_request_status =
                   IF AttemptsExhausted(qe.number_of_attempts_request)
                   THEN "FAILED" ELSE @]

(* lines 110-119: the queue entry as the except branch leaves it *)
FailureUpdate(qe, e) ==
    LET n == qe.number_of_attempts_request + 1 IN
    [qe EXCEPT !.number_of_attempts_request = n,
               !.last_attempt_error_code_request = e,
               !.id_generation_request_status =
                   IF AttemptsExhausted(n) THEN "FAILED" ELSE @]

----------------------------------------------------------------------------
(* The steps of id_generation_request_worker(registrant_id) on worker w *)

(* FetchQueueEntry as a get-or-create: a missing queue entry is enqueued   *)
(* and processed.                                                          *)
FetchQueueEntry_or_create(w, r) ==
    /\ task[w].pc = "idle"
    /\ que_id_generation[r] # NoEntry =>
           que_id_generation[r].number_of_attempts_request < AttemptBound
    /\ LET qe == IF que_id_generation[r] = NoEntry
                 THEN NewQueueEntry ELSE que_id_generation[r]
       IN /\ que_id_generation' = [que_id_generation EXCEPT ![r] = qe]
          /\ task' = [task EXCEPT ![w] =
                 [Idle EXCEPT !.pc = "token", !.registrant_id = r,
                              !.queue_entry = qe]]
    /\ UNCHANGED res_partner

(* lines 23-41: the session opens and the queue entry is fetched; without  *)
(* one the task logs and returns.                                          *)
FetchQueueEntry(w, r) ==
    /\ task[w].pc = "idle"
    /\ que_id_generation[r] # NoEntry =>
           que_id_generation[r].number_of_attempts_request < AttemptBound
    /\ task' = [task EXCEPT ![w] =
           IF que_id_generation[r] = NoEntry
           THEN [Idle EXCEPT !.result = "no_queue_entry"]
           ELSE [Idle EXCEPT !.pc = "token", !.registrant_id = r,
                             !.queue_entry = que_id_generation[r]]]
    /\ UNCHANGED <<que_id_generation, res_partner>>

(* lines 43-48 *)
GetToken(w, t) ==
    /\ task[w].pc = "token"
    /\ IF t \in {"raises", "empty"}
       THEN Raise(w, ErrToken)
       ELSE task' = [task EXCEPT ![w].pc = "get_uin"]
    /\ UNCHANGED <<que_id_generation, res_partner>>

(* GetUinFails with a retry: the call is made again on a failure *)
GetUinFails_retries(w, a) ==
    /\ task[w].pc = "get_uin"
    /\ a \in AuthorityFailures
    /\ task' = [task EXCEPT ![w].authority_calls = @ + 1]
    /\ UNCHANGED <<que_id_generation, res_partner>>

(* lines 50-59 and 61-66: the one call to the authority fails *)
GetUinFails(w, a) ==
    /\ task[w].pc = "get_uin"
    /\ a \in AuthorityFailures
    /\ task' = [task EXCEPT ![w].pc = "except",
                            ![w].authority_calls = @ + 1,
                            ![w].error = ErrAuthority]
    /\ UNCHANGED <<que_id_generation, res_partner>>

(* lines 50-66: the one call to the authority answers with uin u *)
GetUin(w, u) ==
    /\ task[w].pc = "get_uin"
    /\ task' = [task EXCEPT ![w].pc = "load_partner",
                            ![w].authority_calls = @ + 1,
                            ![w].uin = u]
    /\ UNCHANGED <<que_id_generation, res_partner>>

(* lines 68-76 *)
LoadPartner(w) ==
    /\ task[w].pc = "load_partner"
    /\ LET r == task[w].registrant_id IN
       IF res_partner[r] = NoRow
       THEN Raise(w, ErrNoPartner)
       ELSE task' = [task EXCEPT ![w].pc = "check_uin",
                                 ![w].partner_unique_id = res_partner[r]]
    /\ UNCHANGED <<que_id_generation, res_partner>>

(* CheckUin with line 88-89 moved before the check of line 83 *)
CheckUin_assign_first(w) ==
    /\ task[w].pc = "check_uin"
    /\ res_partner' = [res_partner EXCEPT ![task[w].registrant_id] = task[w].uin]
    /\ IF existing_partner_with_uin(task[w].uin)
       THEN Raise(w, ErrDuplicate)
       ELSE task' = [task EXCEPT ![w].pc = "assign"]
    /\ UNCHANGED que_id_generation

(* lines 78-86 *)
CheckUin(w) ==
    /\ task[w].pc = "check_uin"
    /\ IF existing_partner_with_uin(task[w].uin)
       THEN Raise(w, ErrDuplicate)
       ELSE task' = [task EXCEPT ![w].pc = "assign"]
    /\ UNCHANGED <<que_id_generation, res_partner>>

(* AssignUniqueId without lines 88-89: nothing is assigned or committed *)
AssignUniqueId_skipped(w) ==
    /\ task[w].pc = "assign"
    /\ task' = [task EXCEPT ![w].pc = "update_queue",
                            ![w].partner_unique_id = NoId]
    /\ UNCHANGED <<que_id_generation, res_partner>>

(* lines 88-89: the first commit.  The UPDATE is emitted only when the uin *)
(* differs from the unique_id the session loaded.  uin stays a live local  *)
(* of the invocation until it returns.                                     *)
AssignUniqueId(w) ==
    /\ task[w].pc = "assign"
    /\ LET r == task[w].registrant_id IN
       res_partner' =
           IF task[w].uin # task[w].partner_unique_id
           THEN [res_partner EXCEPT ![r] = task[w].uin]
           ELSE res_partner
    /\ task' = [task EXCEPT ![w].pc = "update_queue",
                            ![w].partner_unique_id = NoId]
    /\ UNCHANGED que_id_generation

(* lines 91-103 and 121-123: the second commit, then the task returns *)
CompleteQueueEntry(w) ==
    /\ task[w].pc = "update_queue"
    /\ LET r == task[w].registrant_id
           qe == task[w].queue_entry
       IN que_id_generation' = [que_id_generation EXCEPT
              ![r] = Flush(@, qe, SuccessUpdate(qe))]
    /\ task' = [task EXCEPT ![w] = Idle]
    /\ UNCHANGED res_partner

(* lines 105-123: the except branch, then the task returns *)
RecordFailure(w) ==
    /\ task[w].pc = "except"
    /\ LET r == task[w].registrant_id
           qe == task[w].queue_entry
       IN que_id_generation' = [que_id_generation EXCEPT
              ![r] = Flush(@, qe, FailureUpdate(qe, task[w].error))]
    /\ task' = [task EXCEPT ![w] = Idle]
    /\ UNCHANGED res_partner

(* The worker process stops (is killed, loses its host) in the middle of   *)
(* an invocation: the session and whatever it had not committed are gone.  *)
Kill(w) ==
    /\ InFlight(w)
    /\ task' = [task EXCEPT ![w] = Idle]
    /\ UNCHANGED <<que_id_generation, res_partner>>

Step(w) ==
    \/ \E t \in TokenResults : GetToken(w, t)
    \/ \E a \in AuthorityFailures : GetUinFails(w, a)
    \/ \E u \in Identifiers : GetUin(w, u)
    \/ LoadPartner(w)
    \/ CheckUin(w)
    \/ AssignUniqueId(w)
    \/ CompleteQueueEntry(w)
    \/ RecordFailure(w)
    \/ Kill(w)

----------------------------------------------------------------------------
(* Delivery of the task by the queue.  Nothing in the task keeps two       *)
(* deliveries apart, so Spec lets any idle worker start on any registrant  *)
(* id, also one another worker is busy with.  SpecKeyed is a queue that    *)
(* has at most one invocation in flight per registrant id, SpecSeq one     *)
(* that runs invocations one after another.                                *)

Deliver(w, r) == FetchQueueEntry(w, r)

DeliverKeyed(w, r) ==
    /\ \A o \in Workers : InFlight(o) => task[o].registrant_id # r
    /\ FetchQueueEntry(w, r)

DeliverSeq(w, r) ==
    /\ \A o \in Workers : ~InFlight(o)
    /\ FetchQueueEntry(w, r)

Next ==
    \E w \in Workers :
        \/ \E r \in Registrants : Deliver(w, r)
        \/ Step(w)

NextKeyed ==
    \E w \in Workers :
        \/ \E r \in Registrants : DeliverKeyed(w, r)
        \/ Step(w)

NextSeq ==
    \E w \in Workers :
        \/ \E r \in Registrants : DeliverSeq(w, r)
        \/ Step(w)

Spec == InitContended /\ [][Next]_vars
SpecKeyed == Init /\ [][NextKeyed]_vars
SpecSeq == Init /\ [][NextSeq]_vars

----------------------------------------------------------------------------
(* Columns of a registrant's queue entry *)

Queued(r) == que_id_generation[r] # NoEntry
Status(r) == que_id_generation[r].id_generation_request_status
Attempts(r) == que_id_generation[r].number_of_attempts_request
ErrorCode(r) == que_id_generation[r].last_attempt_error_code_request

----------------------------------------------------------------------------
(* Store faults.  session.commit() can raise (the UPDATE is refused, the   *)
(* connection is lost); the Session then rolls the transaction back, which *)
(* discards the changes it had pending and expires the objects it holds.   *)
(* The exception is an Exception like any other, so when it is raised      *)
(* inside the try it lands in the except branch of line 105, where the     *)
(* first read of queue_entry (line 110) loads the row again.               *)

ErrStorage == "session.commit() raised"

(* line 89 raises: nothing is written *)
AssignCommitFails(w) ==
    /\ task[w].pc = "assign"
    /\ task' = [task EXCEPT ![w] = [Idle EXCEPT !.pc = "except_expired",
                                                !.registrant_id = task[w].registrant_id,
                                                !.authority_calls = task[w].authority_calls,
                                                !.error = ErrStorage]]
    /\ UNCHANGED <<que_id_generation, res_partner>>

(* line 99 raises: nothing is written, the changes of lines 92-98 are lost *)
CompleteCommitFails(w) ==
    /\ task[w].pc = "update_queue"
    /\ task' = [task EXCEPT ![w] = [Idle EXCEPT !.pc = "except_expired",
                                                !.registrant_id = task[w].registrant_id,
                                                !.authority_calls = task[w].authority_calls,
                                                !.error = ErrStorage]]
    /\ UNCHANGED <<que_id_generation, res_partner>>

(* lines 105-123 after a failed commit: the row is loaded again, changed   *)
(* as in every failure and committed, then the task returns.               *)
RecordFailureReloaded(w) ==
    /\ task[w].pc = "except_expired"
    /\ LET r == task[w].registrant_id
           qe == que_id_generation[r]
       IN que_id_generation' = [que_id_generation EXCEPT
              ![r] = Flush(@, qe, FailureUpdate(qe, task[w].error))]
    /\ task' = [task EXCEPT ![w] = Idle]
    /\ UNCHANGED res_partner

(* lines 110-120 raise (the reload of line 110 or the commit of line 120   *)
(* fails): nothing is written and the exception leaves the task.           *)
ExceptBranchRaises(w) ==
    /\ task[w].pc \in {"except", "except_expired"}
    /\ task' = [task EXCEPT ![w] = [Idle EXCEPT !.result = "raised"]]
    /\ UNCHANGED <<que_id_generation, res_partner>>

StepFault(w) ==
    \/ AssignCommitFails(w)
    \/ CompleteCommitFails(w)
    \/ RecordFailureReloaded(w)
    \/ ExceptBranchRaises(w)

NextFault ==
    \E w \in Workers :
        \/ \E r \in Registrants : DeliverSeq(w, r)
        \/ Step(w)
        \/ StepFault(w)

(* Invocations one after another, with commits that may fail *)
SpecFault == Init /\ [][NextFault]_vars

----------------------------------------------------------------------------
(* Redelivery.  The trigger delivers a registrant id again, one invocation *)
(* at a time, as long as its queue entry is PENDING; every invocation runs *)
(* to its return (no worker is stopped, commits succeed).                  *)

DeliverPending(w, r) ==
    /\ Queued(r) /\ Status(r) = "PENDING"
    /\ DeliverSeq(w, r)

StepLive(w) ==
    \/ \E t \in TokenResults : GetToken(w, t)
    \/ \E a \in AuthorityFailures : GetUinFails(w, a)
    \/ \E u \in Identifiers : GetUin(w, u)
    \/ LoadPartner(w)
    \/ CheckUin(w)
    \/ AssignUniqueId(w)
    \/ CompleteQueueEntry(w)
    \/ RecordFailure(w)

NextLive ==
    \E w \in Workers :
        \/ \E r \in Registrants : DeliverPending(w, r)
        \/ StepLive(w)

(* A started invocation goes on to its return, and a registrant whose      *)
(* entry is PENDING is delivered again.                                    *)
Fairness ==
    /\ \A w \in Workers : WF_vars(StepLive(w))
    /\ \A r \in Registrants : WF_vars(\E w \in Workers : DeliverPending(w, r))

SpecLive == Init /\ [][NextLive]_vars /\ Fairness

----------------------------------------------------------------------------
(* Properties *)

(* The invocation on worker w returns through one of its two last commits *)
Returns(w) == CompleteQueueEntry(w) \/ RecordFailure(w)

(* C1: when invocations do not overlap, no two distinct res_partner rows   *)
(* hold the same non-absent unique_id, whatever uin the authority returns. *)
C1_UniqueIdSequential ==
    \A a, b \in Registrants :
        (a # b /\ res_partner[a] \in Identifiers) => res_partner[a] # res_partner[b]

(* C1 witness: one registrant was given a uin by the task, and the task    *)
(* turned the same kind of uin down for another registrant as a duplicate. *)
C1_Witness ==
    \E a, b \in Registrants :
        /\ a # b /\ Queued(a) /\ Queued(b)
        /\ Status(a) = "COMPLETED" /\ res_partner[a] \in Identifiers
        /\ ErrorCode(b) = ErrDuplicate /\ res_partner[b] = NoId

(* C2: with at most one invocation in flight per registrant id, and        *)
(* invocations for different ids interleaving between their store reads    *)
(* and commits, no two distinct res_partner rows hold the same unique_id.  *)
C2_UniqueIdKeyed ==
    \A a \in Registrants : \A b \in Registrants \ {a} :
        res_partner[a] \in Identifiers => res_partner[b] # res_partner[a]

(* C3: once id_generation_request_status is COMPLETED or FAILED no step    *)
(* changes it: the only changes are PENDING to COMPLETED or to FAILED.     *)
C3_TerminalStatus ==
    [][\A r \in Registrants :
          (Queued(r) /\ Status(r) \in {"COMPLETED", "FAILED"})
              => que_id_generation'[r].id_generation_request_status = Status(r)]_vars

(* C4: an invocation that loaded a COMPLETED queue entry returns with the  *)
(* status and the attempt count of the row as they were.                   *)
C4_CompletedReplayNoOp ==
    [][\A w \in Workers :
          (Returns(w) /\ Status(task[w].registrant_id) = "COMPLETED")
              => LET r == task[w].registrant_id IN
                 /\ que_id_generation'[r].id_generation_request_status = Status(r)
                 /\ que_id_generation'[r].number_of_attempts_request = Attempts(r)]_vars

(* C5: an invocation that loaded a PENDING queue entry for a registrant    *)
(* whose res_partner row already holds a unique_id (an earlier invocation  *)
(* stopped between the two commits) makes no call to the authority.        *)
C5_CrashWindowReconciled ==
    \A w \in Workers :
        ( /\ task[w].pc \in {"token", "get_uin", "load_partner", "check_uin", "except"}
          /\ task[w].queue_entry.id_generation_request_status = "PENDING"
          /\ res_partner[task[w].registrant_id] \in Identifiers )
        => task[w].authority_calls = 0

(* C6: a queue entry whose status is FAILED has at least                   *)
(* max_id_generation_request_attempts attempts.                            *)
C6_FailedOnlyAtThreshold ==
    \A r \in Registrants :
        (Queued(r) /\ Status(r) = "FAILED")
            => Attempts(r) >= max_id_generation_request_attempts

(* C7: a queue entry whose status is COMPLETED belongs to a res_partner    *)
(* row with a non-absent unique_id, also while invocations are in flight   *)
(* or were stopped between their commits.                                  *)
C7_CompletedHasUniqueId ==
    \A r \in Registrants :
        (Queued(r) /\ Status(r) = "COMPLETED") => res_partner[r] \in Identifiers

(* C7 witness: a COMPLETED entry next to an invocation for the same        *)
(* registrant that sits between its two commits.                           *)
C7_Witness ==
    \E w \in Workers :
        /\ task[w].pc = "update_queue"
        /\ Status(task[w].registrant_id) = "COMPLETED"
        /\ res_partner[task[w].registrant_id] \in Identifiers

(* C8: when invocations do not overlap, an invocation that found its queue *)
(* entry returns with the persisted attempt count exactly one above the    *)
(* count it found, on the success path and on the failure path alike.      *)
C8_OneAttemptPerInvocation ==
    [][\A w \in Workers :
          Returns(w) =>
              LET r == task[w].registrant_id IN
              /\ Attempts(r) = task[w].queue_entry.number_of_attempts_request
              /\ que_id_generation'[r].number_of_attempts_request = Attempts(r) + 1]_vars

(* C8 witness: one entry counted a successful invocation, another a failed *)
(* one.                                                                    *)
C8_Witness ==
    \E a, b \in Registrants :
        /\ Queued(a) /\ Queued(b)
        /\ Status(a) = "COMPLETED" /\ Attempts(a) = 1
        /\ Status(b) = "PENDING" /\ Attempts(b) = 1 /\ ErrorCode(b) \in ErrorCodes

(* C9: the persisted number_of_attempts_request never decreases from one   *)
(* state to the next, also when invocations for one registrant overlap.    *)
C9_AttemptsNeverDecrease ==
    [][\A r \in Registrants :
          Queued(r) => que_id_generation'[r].number_of_attempts_request >= Attempts(r)]_vars

(* C10: an invocation that loaded a PENDING queue entry and failed commits *)
(* the entry with the failure message as error code, and with status       *)
(* FAILED exactly when the incremented attempt count has reached           *)
(* max_id_generation_request_attempts; otherwise the status stays PENDING. *)
C10_FailureBookkeeping ==
    [][\A w \in Workers :
          (RecordFailure(w)
             /\ task[w].queue_entry.id_generation_request_status = "PENDING")
          => LET r == task[w].registrant_id
                 n == task[w].queue_entry.number_of_attempts_request + 1
                 row == que_id_generation'[r]
             IN /\ task[w].error \in ErrorCodes
                /\ row.last_attempt_error_code_request = task[w].error
                /\ row.number_of_attempts_request = n
                /\ row.id_generation_request_status =
                       IF n >= max_id_generation_request_attempts
                       THEN "FAILED" ELSE "PENDING"]_vars

(* C10 witness: one entry failed below the threshold and is still PENDING, *)
(* another failed at the threshold and is FAILED.                          *)
C10_Witness ==
    \E a, b \in Registrants :
        /\ Queued(a) /\ Queued(b)
        /\ Status(a) = "PENDING" /\ ErrorCode(a) \in ErrorCodes
        /\ Attempts(a) = max_id_generation_request_attempts - 1
        /\ Status(b) = "FAILED" /\ ErrorCode(b) \in ErrorCodes
        /\ Attempts(b) = max_id_generation_request_attempts

(* C11: an invocation that loaded a PENDING queue entry and a res_partner  *)
(* row without unique_id, got a token and a uin that no row holds, commits *)
(* the uin as the row's unique_id and then returns with the entry          *)
(* COMPLETED, update status PENDING, the attempt count one above the one   *)
(* before, and no error code.                                              *)
C11_HappyPath ==
    [][\A w \in Workers :
          LET r == task[w].registrant_id
              qe == task[w].queue_entry
          IN /\ ( /\ AssignUniqueId(w)
                  /\ qe.id_generation_request_status = "PENDING"
                  /\ task[w].partner_unique_id = NoId )
                => /\ task[w].uin \in Identifiers
                   /\ res_partner'[r] = task[w].uin
             /\ ( /\ CompleteQueueEntry(w)
                  /\ qe.id_generation_request_status = "PENDING" )
                => /\ res_partner'[r] = task[w].uin
                   /\ que_id_generation'[r] =
                          [ number_of_attempts_request |-> Attempts(r) + 1,
                            id_generation_request_status |-> "COMPLETED",
                            id_generation_update_status |-> "PENDING",
                            last_attempt_error_code_request |-> NoError ]]_vars

(* C11 witness: a fresh entry after its one successful invocation *)
C11_Witness ==
    \E r \in Registrants :
        /\ Queued(r) /\ res_partner[r] \in Identifiers
        /\ que_id_generation[r] =
               [ number_of_attempts_request |-> 1,
                 id_generation_request_status |-> "COMPLETED",
                 id_generation_update_status |-> "PENDING",
                 last_attempt_error_code_request |-> NoError ]
        /\ \A w \in Workers : ~InFlight(w)

(* C12: an invocation that ends in a counted failure has written no        *)
(* res_partner row: the except branch is entered only from the steps       *)
(* before the assignment, it leaves res_partner as it is, and no other     *)
(* step than the assignment of lines 88-89 changes a unique_id.            *)
C12_FailureLeavesRegistrants ==
    [][\A w \in Workers :
          /\ (task'[w].pc = "except" /\ task[w].pc # "except")
                => /\ task[w].pc \in {"token", "get_uin", "load_partner", "check_uin"}
                   /\ task'[w].error \in ErrorCodes
                   /\ res_partner' = res_partner
          /\ RecordFailure(w)
                => /\ res_partner' = res_partner
                   /\ \A o \in Registrants \ {task[w].registrant_id} :
                          que_id_generation'[o] = que_id_generation[o]
          /\ (task[w].pc \in {"token", "get_uin", "load_partner", "check_uin", "except"}
                /\ task'[w] # task[w])
                => res_partner' = res_partner]_vars

(* C12 witness: the uin was turned down as a duplicate of another row's,   *)
(* the attempt is counted and the target row still has no unique_id.       *)
C12_Witness ==
    \E r \in Registrants : \E p \in Registrants \ {r} :
        /\ Queued(r) /\ Attempts(r) = 1 /\ Status(r) = "PENDING"
        /\ ErrorCode(r) = ErrDuplicate
        /\ res_partner[r] = NoId /\ res_partner[p] \in Identifiers
        /\ \A w \in Workers : ~InFlight(w)

(* C13: an invocation for a registrant id without queue entry returns at   *)
(* once: both tables are as they were, and the worker is idle again        *)
(* without having asked for a token or called the authority.               *)
C13_MissingEntryNoOp ==
    [][\A w \in Workers : \A r \in Registrants :
          (FetchQueueEntry(w, r) /\ ~Queued(r))
              => /\ que_id_generation' = que_id_generation
                 /\ res_partner' = res_partner
                 /\ task'[w] = [Idle EXCEPT !.result = "no_queue_entry"]]_vars

(* C13 witness: an invocation returned for want of a queue entry *)
C13_Witness ==
    \E w \in Workers :
        /\ task[w].result = "no_queue_entry" /\ task[w].pc = "idle"
        /\ \E r \in Registrants : ~Queued(r)

(* C14: an invocation that stands between its two commits has committed    *)
(* the uin to the res_partner row, while the queue entry is still the row  *)
(* it loaded (attempt count not incremented); and no queue entry is        *)
(* COMPLETED while its res_partner row has no unique_id.                   *)
C14_CommitOrder ==
    /\ \A w \in Workers :
           task[w].pc = "update_queue"
               => LET r == task[w].registrant_id IN
                  /\ task[w].uin \in Identifiers
                  /\ res_partner[r] = task[w].uin
                  /\ que_id_generation[r] = task[w].queue_entry
    /\ \A r \in Registrants :
           (Queued(r) /\ Status(r) = "COMPLETED") => res_partner[r] \in Identifiers

(* C14 witness: an invocation stopped between the commits: the row holds a *)
(* uin, the entry is PENDING with no attempt counted, nothing is running.  *)
C14_Witness ==
    \E r \in Registrants :
        /\ Queued(r) /\ Status(r) = "PENDING" /\ Attempts(r) = 0
        /\ res_partner[r] \in Identifiers
        /\ \A w \in Workers : ~InFlight(w)

(* C15: an invocation calls the authority at most once: not at all before  *)
(* it has a token or when the token step failed, once when it is past the  *)
(* call.  A worker that returned for want of a queue entry called nobody.  *)
C15_OneAuthorityCall ==
    \A w \in Workers :
        /\ task[w].authority_calls <= 1
        /\ task[w].pc \in {"idle", "token", "get_uin"} => task[w].authority_calls = 0
        /\ (task[w].pc = "except" /\ task[w].error = ErrToken)
               => task[w].authority_calls = 0
        /\ task[w].pc \in {"load_partner", "check_uin", "assign", "update_queue"}
               => task[w].authority_calls = 1

(* C15 witness: an invocation whose one call failed is in the except       *)
(* branch, next to one that failed at the token step.                      *)
C15_Witness ==
    \E a, b \in Workers :
        /\ task[a].pc = "except" /\ task[a].error = ErrAuthority
        /\ task[a].authority_calls = 1
        /\ task[b].pc = "except" /\ task[b].error = ErrToken

(* C16: while commits succeed no exception leaves the task: a failure of   *)
(* the token step, of the authority call, of the res_partner lookup or of  *)
(* the uin check takes the invocation into the except branch, and the      *)
(* except branch ends in the one commit that counts the attempt and        *)
(* records the error, after which the worker is idle with nothing raised.  *)
C16_ErrorsCaught ==
    [][\A w \in Workers :
          /\ task'[w].result # "raised"
          /\ (task[w].error = NoError /\ task'[w].error # NoError)
                => /\ task'[w].pc = "except"
                   /\ task'[w].error \in ErrorCodes
                   /\ UNCHANGED <<que_id_generation, res_partner>>
          /\ (task[w].pc = "except" /\ task'[w] # task[w] /\ ~Kill(w))
                => LET r == task[w].registrant_id IN
                   /\ RecordFailure(w)
                   /\ task'[w] = Idle
                   /\ que_id_generation'[r].number_of_attempts_request =
                          Attempts(r) + 1
                   /\ que_id_generation'[r].last_attempt_error_code_request =
                          task[w].error]_vars

(* C16 witness: a failed token step and a missing res_partner row were     *)
(* each recorded on their queue entry, and every worker is idle with       *)
(* nothing raised.                                                         *)
C16_Witness ==
    /\ \E a, b \in Registrants :
           /\ Queued(a) /\ ErrorCode(a) = ErrToken /\ Attempts(a) = 1
           /\ Queued(b) /\ ErrorCode(b) = ErrNoPartner /\ Attempts(b) = 1
    /\ \A w \in Workers : task[w].pc = "idle" /\ task[w].result = "none"

C18_CollisionOnlyWithOther ==
    [][\A w \in Workers :
          (CheckUin(w) /\ task'[w].pc = "except")
              => \E p \in Registrants \ {task[w].registrant_id} :
                     res_partner[p] = task[w].uin]_vars

(* C19: under fair redelivery every queue entry is eventually COMPLETED or *)
(* FAILED, and an entry that is still PENDING has fewer than               *)
(* max_id_generation_request_attempts attempts, so that no more than that  *)
(* many invocations are run for it.                                        *)
C19_EventuallyTerminal ==
    /\ \A r \in Registrants :
           [](Queued(r) =>
                 <>(Queued(r) /\ Status(r) \in {"COMPLETED", "FAILED"}))
    /\ [](\A r \in Registrants :
             Queued(r) =>
                 /\ Attempts(r) <= max_id_generation_request_attempts
                 /\ Status(r) = "PENDING"
                        => Attempts(r) < max_id_generation_request_attempts)

(* C19 witness: one entry was failed by its last allowed invocation, the   *)
(* other completed, and the trigger has nothing left to deliver.           *)
C19_Witness ==
    /\ \E a, b \in Registrants :
           /\ Queued(a) /\ Status(a) = "FAILED"
           /\ Attempts(a) = max_id_generation_request_attempts
           /\ Queued(b) /\ Status(b) = "COMPLETED"
    /\ \A w \in Workers : \A r \in Registrants : ~ENABLED DeliverPending(w, r)

(* C20: a unique_id that is set is never changed by a later step *)
C20_UniqueIdStable ==
    [][\A r \in Registrants :
          res_partner[r] \in Identifiers => res_partner'[r] = res_partner[r]]_vars
====
